---- MODULE Spec2Model ----
(***************************************************************************)
(* Model of the Bristol-format circuit parser of src/src/circuit.rs.       *)
(*                                                                         *)
(* A text is a sequence of characters (one-character strings).  A u32 is   *)
(* kept as its two 16-bit limbs <<low, high>>, so that the arithmetic of   *)
(* str::parse::<u32> is computed with its own width; a usize has two or    *)
(* four limbs, depending on the target.  A function that returns is        *)
(* Ok(value); a function that panics is Panic(message).                    *)
(***************************************************************************)
EXTENDS Integers, Sequences, FiniteSets, TLC

VARIABLES kind, input, parts, usize_bits, pc, result

vars == <<kind, input, parts, usize_bits, pc, result>>

----------------------------------------------------------------------------
(* Outcomes of a call.                                                     *)

Ok(v) == [ok |-> TRUE, val |-> v]

Panic(m) == [ok |-> FALSE, msg |-> m]

MSG_INDEX == "index out of bounds"
MSG_SLICE == "range end index 3 out of range for slice"
MSG_PARSE_INT == "unwrap on Err: ParseIntError"
MSG_NONE == "unwrap on None"
MSG_ASSERT == "assertion failed"
MSG_IN_2_XOR == "Number of input wires must be 2 for every XOR gate"
MSG_IN_2_AND == "Number of input wires must be 2 for every AND gate"
MSG_IN_1 == "Number of input wires must be 1 for every INV/NOT gate"
MSG_OUT_1 == "Number of output wires must be 1 for every gate"
MSG_UNIMPLEMENTED == "not implemented"
MSG_UNKNOWN_GATE == "Unknown gate type!"

----------------------------------------------------------------------------
(* Characters and the library functions the parser calls.                  *)

LF == "\n"
CR == "\r"

DigitChars == <<"0", "1", "2", "3", "4", "5", "6", "7", "8", "9">>

IsDigit(c) == \E k \in 1..10 : DigitChars[k] = c

DigitVal(c) == (CHOOSE k \in 1..10 : DigitChars[k] = c) - 1

\* U+000B, U+000C, U+0085 and U+00A0
VT == ""
FF == "\f"
NEL == ""
NBSP == " "

\* the White_Space code points above U+00FF, which a string cannot hold, each
\* written as the character named by its code point
WideWhiteSpace ==
    {"U+1680", "U+2000", "U+2001", "U+2002", "U+2003", "U+2004", "U+2005", "U+2006",
     "U+2007", "U+2008", "U+2009", "U+200A", "U+2028", "U+2029", "U+202F", "U+205F",
     "U+3000"}

\* char::is_whitespace: the characters with the Unicode property White_Space
IsWhitespace(c) == c \in {"\t", "\n", VT, FF, "\r", " ", NEL, NBSP} \cup WideWhiteSpace

\* a limb holds 16 bits
LimbBase == 256 * 256

RECURSIVE ZeroLimbs(_)
ZeroLimbs(n) == IF n = 0 THEN <<>> ELSE <<0>> \o ZeroLimbs(n - 1)

\* limbs * 10 + c with carry propagation; a non-zero final carry is the
\* overflow that checked_mul / checked_add report
RECURSIVE MulAdd(_, _)
MulAdd(ls, c) ==
    IF ls = <<>> THEN [v |-> <<>>, carry |-> c]
    ELSE LET t == Head(ls) * 10 + c
             r == MulAdd(Tail(ls), t \div LimbBase)
         IN  [v |-> <<t % LimbBase>> \o r.v, carry |-> r.carry]

RECURSIVE ParseDigits(_, _)
ParseDigits(digits, acc) ==
    IF digits = <<>> THEN Ok(acc)
    ELSE IF ~IsDigit(Head(digits)) THEN Panic(MSG_PARSE_INT)
    ELSE LET r == MulAdd(acc, DigitVal(Head(digits)))
         IN  IF r.carry # 0 THEN Panic(MSG_PARSE_INT)
             ELSE ParseDigits(Tail(digits), r.v)

\* str::parse::<uN>().unwrap() for an unsigned type of `bits` bits:
\* an optional leading "+", then at least one decimal digit, no overflow
ParseUnsigned(tok, bits) ==
    IF tok = <<>> THEN Panic(MSG_PARSE_INT)
    ELSE IF tok = <<"+">> \/ tok = <<"-">> THEN Panic(MSG_PARSE_INT)
    ELSE LET digits == IF Head(tok) = "+" THEN Tail(tok) ELSE tok
         IN  ParseDigits(digits, ZeroLimbs(bits \div 16))

\* parse_u32 with a wider accumulator cut to 32 bits: a value of 2^32 or more
\* wraps instead of failing
parse_u32_wrapping(tok) ==
    LET wide == ParseUnsigned(tok, 64)
    IN  IF wide.ok THEN Ok(SubSeq(wide.val, 1, 2)) ELSE wide

parse_u32(tok) == ParseUnsigned(tok, 32)

parse_usize(tok) == ParseUnsigned(tok, usize_bits)

\* a length (small natural number) as a usize
RECURSIVE ToLimbs(_, _)
ToLimbs(n, k) == IF k = 0 THEN <<>> ELSE <<n % LimbBase>> \o ToLimbs(n \div LimbBase, k - 1)

usize_of(n) == ToLimbs(n, usize_bits \div 16)

\* position of the first "\n" of text, 0 when there is none
RECURSIVE FindLF(_, _)
FindLF(text, i) ==
    IF i > Len(text) THEN 0
    ELSE IF text[i] = LF THEN i ELSE FindLF(text, i + 1)

StripCR(line) ==
    IF line # <<>> /\ line[Len(line)] = CR THEN SubSeq(line, 1, Len(line) - 1) ELSE line

\* str::lines: split at "\n", a "\r" right before the "\n" belongs to the
\* terminator; a final line needs no terminator
RECURSIVE lines(_)
lines(text) ==
    IF text = <<>> THEN <<>>
    ELSE LET k == FindLF(text, 1)
         IN  IF k = 0 THEN <<text>>
             ELSE <<StripCR(SubSeq(text, 1, k - 1))>> \o lines(SubSeq(text, k + 1, Len(text)))

\* filter_non_empty without the filter
filter_nothing(ls) == ls

\* Iterator::filter(|line| !line.is_empty())
RECURSIVE filter_non_empty(_)
filter_non_empty(ls) ==
    IF ls = <<>> THEN <<>>
    ELSE IF Head(ls) = <<>> THEN filter_non_empty(Tail(ls))
    ELSE <<Head(ls)>> \o filter_non_empty(Tail(ls))

\* str::split_whitespace: the maximal runs of non-whitespace characters
RECURSIVE SplitWs(_, _, _)
SplitWs(line, i, cur) ==
    IF i > Len(line) THEN (IF cur = <<>> THEN <<>> ELSE <<cur>>)
    ELSE IF IsWhitespace(line[i])
         THEN (IF cur = <<>> THEN <<>> ELSE <<cur>>) \o SplitWs(line, i + 1, <<>>)
         ELSE SplitWs(line, i + 1, Append(cur, line[i]))

split_whitespace(line) == SplitWs(line, 1, <<>>)

\* v[i] with Rust's 0-based index and bounds check
Index(v, i) == IF i < Len(v) THEN Ok(v[i + 1]) ELSE Panic(MSG_INDEX)

----------------------------------------------------------------------------
(* The parser.  A line is a sequence of characters, a gate_line or         *)
(* header_line after split_whitespace a sequence of tokens.                *)

TAG_XOR == <<"X", "O", "R">>
TAG_AND == <<"A", "N", "D">>
TAG_INV == <<"I", "N", "V">>
TAG_NOT == <<"N", "O", "T">>
TAG_EQ == <<"E", "Q">>
TAG_EQW == <<"E", "Q", "W">>
TAG_MAND == <<"M", "A", "N", "D">>

\* gate_line[i].parse().unwrap()
ParseAt(toks, i) ==
    LET t == Index(toks, i)
    IN  IF t.ok THEN parse_u32(t.val) ELSE t

\* assert_eq!(gate_line[i], want, msg)
AssertTokenEq(toks, i, want, msg) ==
    LET t == Index(toks, i)
    IN  IF ~t.ok THEN t
        ELSE IF t.val = want THEN Ok(TRUE) ELSE Panic(msg)

\* the body shared by parse_gate_xor and parse_gate_and
ParseBinary(gate_line, type, msg) ==
    LET c0 == AssertTokenEq(gate_line, 0, <<"2">>, msg)
        c1 == AssertTokenEq(gate_line, 1, <<"1">>, MSG_OUT_1)
        a == ParseAt(gate_line, 2)
        b == ParseAt(gate_line, 3)
        o == ParseAt(gate_line, 4)
    IN  IF ~c0.ok THEN c0
        ELSE IF ~c1.ok THEN c1
        ELSE IF ~a.ok THEN a
        ELSE IF ~b.ok THEN b
        ELSE IF ~o.ok THEN o
        ELSE Ok([type |-> type, input_a |-> a.val, input_b |-> b.val, output |-> o.val])

parse_gate_xor(gate_line) == ParseBinary(gate_line, "XOR", MSG_IN_2_XOR)

\* parse_gate_and without the assertion on the declared input count
parse_gate_and_unchecked(gate_line) ==
    LET c1 == AssertTokenEq(gate_line, 1, <<"1">>, MSG_OUT_1)
        a == ParseAt(gate_line, 2)
        b == ParseAt(gate_line, 3)
        o == ParseAt(gate_line, 4)
    IN  IF ~c1.ok THEN c1
        ELSE IF ~a.ok THEN a
        ELSE IF ~b.ok THEN b
        ELSE IF ~o.ok THEN o
        ELSE Ok([type |-> "AND", input_a |-> a.val, input_b |-> b.val, output |-> o.val])

parse_gate_and(gate_line) == ParseBinary(gate_line, "AND", MSG_IN_2_AND)

parse_gate_inv(gate_line) ==
    LET c0 == AssertTokenEq(gate_line, 0, <<"1">>, MSG_IN_1)
        c1 == AssertTokenEq(gate_line, 1, <<"1">>, MSG_OUT_1)
        i == ParseAt(gate_line, 2)
        o == ParseAt(gate_line, 3)
    IN  IF ~c0.ok THEN c0
        ELSE IF ~c1.ok THEN c1
        ELSE IF ~i.ok THEN i
        ELSE IF ~o.ok THEN o
        ELSE Ok([type |-> "INV", input |-> i.val, output |-> o.val])

\* GateDispatch without the "NOT" alternative of the INV arm
GateDispatchNoNot(toks) ==
    IF toks = <<>> THEN Panic(MSG_NONE)
    ELSE LET tag == toks[Len(toks)]
         IN  IF tag = TAG_XOR THEN parse_gate_xor(toks)
             ELSE IF tag = TAG_AND THEN parse_gate_and(toks)
             ELSE IF tag = TAG_INV THEN parse_gate_inv(toks)
             ELSE IF tag = TAG_EQ \/ tag = TAG_EQW \/ tag = TAG_MAND
                  THEN Panic(MSG_UNIMPLEMENTED)
             ELSE Panic(MSG_UNKNOWN_GATE)

\* GateDispatch without the arm of the unsupported tags
GateDispatchNoUnsupported(toks) ==
    IF toks = <<>> THEN Panic(MSG_NONE)
    ELSE LET tag == toks[Len(toks)]
         IN  IF tag = TAG_XOR THEN parse_gate_xor(toks)
             ELSE IF tag = TAG_AND THEN parse_gate_and(toks)
             ELSE IF tag = TAG_INV \/ tag = TAG_NOT THEN parse_gate_inv(toks)
             ELSE Panic(MSG_UNKNOWN_GATE)

\* match *gate_line.last().unwrap() { ... }
GateDispatch(toks) ==
    IF toks = <<>> THEN Panic(MSG_NONE)
    ELSE LET tag == toks[Len(toks)]
         IN  IF tag = TAG_XOR THEN parse_gate_xor(toks)
             ELSE IF tag = TAG_AND THEN parse_gate_and(toks)
             ELSE IF tag = TAG_INV \/ tag = TAG_NOT THEN parse_gate_inv(toks)
             ELSE IF tag = TAG_EQ \/ tag = TAG_EQW \/ tag = TAG_MAND
                  THEN Panic(MSG_UNIMPLEMENTED)
             ELSE Panic(MSG_UNKNOWN_GATE)

parse_gate(gate_line) == GateDispatch(split_whitespace(gate_line))

parse_header_general(header_line) ==
    LET toks == split_whitespace(header_line)
        g == ParseAt(toks, 0)
        w == ParseAt(toks, 1)
    IN  IF ~g.ok THEN g
        ELSE IF ~w.ok THEN w
        ELSE Ok(<<g.val, w.val>>)

\* for line_part in &header_line[1..] { num_wires.push(line_part.parse().unwrap()) }
RECURSIVE PushWires(_, _)
PushWires(rest, num_wires) ==
    IF rest = <<>> THEN Ok(num_wires)
    ELSE LET v == parse_u32(Head(rest))
         IN  IF ~v.ok THEN v ELSE PushWires(Tail(rest), Append(num_wires, v.val))

\* IoWires without the assertion on the number of tokens
IoWiresUnchecked(toks) ==
    LET t0 == Index(toks, 0)
    IN  IF ~t0.ok THEN t0
        ELSE LET num_ports == parse_usize(t0.val)
             IN  IF ~num_ports.ok THEN num_ports
                 ELSE PushWires(Tail(toks), <<>>)

IoWires(toks) ==
    LET t0 == Index(toks, 0)
    IN  IF ~t0.ok THEN t0
        ELSE LET num_ports == parse_usize(t0.val)
             IN  IF ~num_ports.ok THEN num_ports
                 ELSE IF usize_of(Len(toks) - 1) # num_ports.val THEN Panic(MSG_ASSERT)
                 ELSE PushWires(Tail(toks), <<>>)

parse_header_io_wires(header_line) == IoWires(split_whitespace(header_line))

\* parse_header_io_wires on a header_line too long to write out: the token
\* first followed by the token repeated, times times.  times is
\* header_line[1..].len(), a usize kept as limbs; the Vec returned holds the
\* same value len times and is kept as that value and its length.  With
\* times zero the loop parses no token and the Vec is empty (each is <<>>).
IoWiresRepeated(first, repeated, times) ==
    LET num_ports == parse_usize(first)
        v == parse_u32(repeated)
    IN  IF ~num_ports.ok THEN num_ports
        ELSE IF times # num_ports.val THEN Panic(MSG_ASSERT)
        ELSE IF times = ZeroLimbs(Len(times)) THEN Ok([len |-> times, each |-> <<>>])
        ELSE IF ~v.ok THEN v
        ELSE Ok([len |-> times, each |-> v.val])

parse_header(header_lines) ==
    LET l0 == Index(header_lines, 0)
        l1 == Index(header_lines, 1)
        l2 == Index(header_lines, 2)
        general == parse_header_general(l0.val)
        num_input_wires == parse_header_io_wires(l1.val)
        num_output_wires == parse_header_io_wires(l2.val)
    IN  IF ~l0.ok THEN l0
        ELSE IF ~general.ok THEN general
        ELSE IF ~l1.ok THEN l1
        ELSE IF ~num_input_wires.ok THEN num_input_wires
        ELSE IF ~l2.ok THEN l2
        ELSE IF ~num_output_wires.ok THEN num_output_wires
        ELSE Ok([num_gates |-> general.val[1], num_wires |-> general.val[2],
                 num_input_wires |-> num_input_wires.val,
                 num_output_wires |-> num_output_wires.val])

\* PushGates inserting each gate at the front
RECURSIVE PushGatesFront(_, _)
PushGatesFront(rest, gates) ==
    IF rest = <<>> THEN Ok(gates)
    ELSE LET g == parse_gate(Head(rest))
         IN  IF ~g.ok THEN g ELSE PushGatesFront(Tail(rest), <<g.val>> \o gates)

\* PushGates stopping at the first line that fails, keeping the gates before it
RECURSIVE PushGatesUntilFailure(_, _)
PushGatesUntilFailure(rest, gates) ==
    IF rest = <<>> THEN gates
    ELSE LET g == parse_gate(Head(rest))
         IN  IF ~g.ok THEN gates ELSE PushGatesUntilFailure(Tail(rest), Append(gates, g.val))

\* for line in &circuit[3..] { gates.push(parse_gate(line)) }
RECURSIVE PushGates(_, _)
PushGates(rest, gates) ==
    IF rest = <<>> THEN Ok(gates)
    ELSE LET g == parse_gate(Head(rest))
         IN  IF ~g.ok THEN g ELSE PushGates(Tail(rest), Append(gates, g.val))

\* ParseLines returning the gates parsed before a failing gate line
ParseLinesPartial(circuit) ==
    IF Len(circuit) < 3 THEN Panic(MSG_SLICE)
    ELSE LET header == parse_header(SubSeq(circuit, 1, 3))
         IN  IF ~header.ok THEN header
             ELSE Ok([header |-> header.val,
                      gates |-> PushGatesUntilFailure(SubSeq(circuit, 4, Len(circuit)), <<>>)])

\* ParseLines asserting that the declared gate count is the number of gates
ParseLinesCounted(circuit) ==
    IF Len(circuit) < 3 THEN Panic(MSG_SLICE)
    ELSE LET header == parse_header(SubSeq(circuit, 1, 3))
         IN  IF ~header.ok THEN header
             ELSE LET gates == PushGates(SubSeq(circuit, 4, Len(circuit)), <<>>)
                  IN  IF ~gates.ok THEN gates
                      ELSE IF header.val.num_gates # ToLimbs(Len(gates.val), 2)
                           THEN Panic(MSG_ASSERT)
                      ELSE Ok([header |-> header.val, gates |-> gates.val])

ParseLines(circuit) ==
    IF Len(circuit) < 3 THEN Panic(MSG_SLICE)
    ELSE LET header == parse_header(SubSeq(circuit, 1, 3))
         IN  IF ~header.ok THEN header
             ELSE LET gates == PushGates(SubSeq(circuit, 4, Len(circuit)), <<>>)
                  IN  IF ~gates.ok THEN gates
                      ELSE Ok([header |-> header.val, gates |-> gates.val])

Circuit_parse(circuit) == ParseLines(filter_non_empty(lines(circuit)))

----------------------------------------------------------------------------
(* The inputs the calls are made on.                                       *)

MaxWireTokens == 4
MaxPortTokens == 3
MaxGeneralTokens == 3
MaxGateLines == 3
MaxBlankLines == 2

\* the decimal numeral of a small natural number
RECURSIVE Dec(_)
Dec(n) == IF n < 10 THEN <<DigitChars[n + 1]>> ELSE Dec(n \div 10) \o <<DigitChars[(n % 10) + 1]>>

RECURSIVE Join(_, _)
Join(seqs, sep) ==
    IF seqs = <<>> THEN <<>>
    ELSE IF Len(seqs) = 1 THEN seqs[1]
    ELSE seqs[1] \o sep \o Join(Tail(seqs), sep)

SeqsUpTo(S, n) == UNION {[1..k -> S] : k \in 0..n}

U32_MAX_TOKEN == <<"4", "2", "9", "4", "9", "6", "7", "2", "9", "5">>
U32_OVER_TOKEN == <<"4", "2", "9", "4", "9", "6", "7", "2", "9", "6">>
U32_WRAP_ONE_TOKEN == <<"4", "2", "9", "4", "9", "6", "7", "2", "9", "7">>
U64_OVER_TOKEN == <<"1", "8", "4", "4", "6", "7", "4", "4", "0", "7", "3", "7", "0", "9", "5", "5", "1", "6", "1", "6">>

NumTokens ==
    {Dec(0), Dec(42), <<"0", "0", "7">>, <<"+", "5">>, <<"-", "1">>, <<"-", "0">>,
     <<"x">>, <<"1", "a">>, <<"+">>, Dec(65536), U32_MAX_TOKEN, U32_OVER_TOKEN,
     U32_WRAP_ONE_TOKEN, <<"9", "9", "9", "9", "9", "9", "9", "9", "9", "9", "9">>}

GateTags ==
    {TAG_XOR, TAG_AND, TAG_INV, TAG_NOT, TAG_EQ, TAG_EQW, TAG_MAND,
     <<"F", "O", "O">>, <<"x", "o", "r">>, <<"A", "n", "d">>, Dec(7)}

GateTokenLists ==
    {<<c0, c1>> \o ws \o <<tag>> :
        c0 \in {Dec(1), Dec(2), Dec(3)}, c1 \in {Dec(1), Dec(2)},
        ws \in SeqsUpTo({Dec(0), Dec(7)}, MaxWireTokens), tag \in GateTags}
    \cup {<<c0, tag>> : c0 \in {Dec(1), Dec(2)}, tag \in GateTags}
    \cup {<<tag>> : tag \in GateTags}
    \cup {<<>>}
    \cup {<<Dec(2), Dec(1)>> \o [[k \in 1..3 |-> Dec(k)] EXCEPT ![p] = n] \o <<tag>> :
            p \in 1..3, n \in NumTokens, tag \in {TAG_XOR, TAG_AND}}
    \cup {<<Dec(1), Dec(1)>> \o [[k \in 1..2 |-> Dec(k)] EXCEPT ![p] = n] \o <<tag>> :
            p \in 1..2, n \in NumTokens, tag \in {TAG_INV, TAG_NOT}}
    \cup {<<n, Dec(1), Dec(3), Dec(4), Dec(5), TAG_XOR>> : n \in {<<"+", "2">>, <<"0", "2">>}}

IoTokenLists ==
    {<<n>> \o ws :
        n \in {Dec(0), Dec(1), Dec(2), Dec(3), <<"+", "2">>, <<"0", "2">>, <<"x">>, <<"-", "1">>,
               U32_OVER_TOKEN, U32_WRAP_ONE_TOKEN, U64_OVER_TOKEN},
        ws \in SeqsUpTo({Dec(1), Dec(8), <<"x">>, U32_MAX_TOKEN, U32_OVER_TOKEN},
                        MaxPortTokens)}
    \cup {<<>>}

GeneralTokenLists ==
    SeqsUpTo({Dec(0), Dec(42), <<"+", "5">>, <<"-", "1">>, <<"x">>, U32_MAX_TOKEN,
              U32_OVER_TOKEN, U32_WRAP_ONE_TOKEN}, MaxGeneralTokens)

\* a token list as a line: single spaces, padded with extra blanks and tabs,
\* or separated by the other white space characters
Render(toks, style) ==
    IF style = "spaces" THEN Join(toks, <<" ">>)
    ELSE IF style = "padded" THEN <<" ">> \o Join(toks, <<"\t", " ">>) \o <<" ", "\t">>
    ELSE <<VT, NBSP>> \o Join(toks, <<FF, "U+2003", NEL>>) \o <<"U+3000">>

Styles == {"spaces", "padded", "unicode"}

Line(toks) == Render(toks, "spaces")

GeneralTokens == {<<Dec(4), Dec(8)>>, <<Dec(9), Dec(8), Dec(5)>>, <<<<"x">>, Dec(8)>>}

\* the token lists of the three header lines
HeaderTriples ==
    {<<g, <<Dec(2), Dec(1), Dec(1)>>, <<Dec(1), Dec(1)>>>> : g \in GeneralTokens}
    \cup {<<<<Dec(4), Dec(8)>>, <<Dec(3), Dec(1), Dec(1)>>, <<Dec(1), Dec(1)>>>>,
          <<<<Dec(2), Dec(8)>>, <<Dec(0)>>, <<Dec(1), <<"x">>>>>>}

\* the token lists of the gate lines of a text
CircuitGateTokens ==
    {<<Dec(2), Dec(1), Dec(0), Dec(1), Dec(4), TAG_AND>>,
     <<Dec(1), Dec(1), Dec(4), Dec(5), TAG_INV>>,
     <<Dec(2), Dec(1), Dec(0), Dec(1), Dec(2), TAG_MAND>>}

\* the non-empty lines of a text, as token lists: a header and gate lines,
\* fewer than three lines, or a line of blanks (the token list <<>>) among
\* the lines
CircuitLineLists ==
    {h \o gs : h \in HeaderTriples, gs \in SeqsUpTo(CircuitGateTokens, MaxGateLines)}
    \cup {SubSeq(h, 1, k) : h \in HeaderTriples, k \in 0..2}
    \cup {SubSeq(h \o <<g>>, 1, k) \o <<<<>>>> \o SubSeq(h \o <<g>>, k + 1, 4) :
            h \in HeaderTriples, g \in CircuitGateTokens, k \in 0..4}

\* a non-empty line with the tokens toks
SourceLine(toks) == IF toks = <<>> THEN <<" ">> ELSE Line(toks)

SourceLines(ls) == [i \in 1..Len(ls) |-> SourceLine(ls[i])]

Blanks(n) == [k \in 1..n |-> <<>>]

\* ls with n zero-length lines put after its first pos lines
WithBlanks(ls, pos, n) == SubSeq(ls, 1, pos) \o Blanks(n) \o SubSeq(ls, pos + 1, Len(ls))

\* the text of the lines ls, each ended by eol when final, else separated by it
Text(ls, eol, final) == Join(ls, eol) \o (IF final /\ ls # <<>> THEN eol ELSE <<>>)

\* where zero-length lines are put, and how many: none, or up to
\* MaxBlankLines before the header, inside it, after it, between the last
\* two lines or at the end
BlankInsertions(ls) ==
    {<<0, 0>>} \cup
    {<<p, n>> : p \in {q \in {0, 1, 3, Len(ls) - 1, Len(ls)} : q >= 0 /\ q <= Len(ls)},
                n \in 1..MaxBlankLines}

\* line terminator, and whether the last line has one
TextFormats == {<<<<LF>>, FALSE>>, <<<<LF>>, TRUE>>, <<<<CR, LF>>, TRUE>>}

----------------------------------------------------------------------------
(* The calls.                                                              *)

\* the numbers of repeated tokens of the port-list lines given by repetition,
\* as the usize of a 64-bit target: 0, 2, 2^32 - 1, 2^32 and 2^32 + 1.  A
\* 32-bit target cannot hold a line of 2^32 - 1 tokens or more (a &str has at
\* most 2^31 - 1 bytes there), so these lines are given to a 64-bit target only.
LongLineLengths ==
    {<<0, 0, 0, 0>>, <<2, 0, 0, 0>>, <<65535, 65535, 0, 0>>, <<0, 0, 1, 0>>, <<1, 0, 1, 0>>}

LongLineCounts ==
    {Dec(0), Dec(2), U32_MAX_TOKEN, U32_OVER_TOKEN, U32_WRAP_ONE_TOKEN, U64_OVER_TOKEN}

LongLineWires == {Dec(1), U32_MAX_TOKEN, U32_OVER_TOKEN, <<"x">>}

NoResult == Panic("not called")

Init ==
    /\ pc = "ready"
    /\ result = NoResult
    /\ usize_bits \in {32, 64}
    /\ \/ /\ kind = "circuit"
          /\ parts \in CircuitLineLists
          /\ \E b \in BlankInsertions(parts), f \in TextFormats :
                input = Text(WithBlanks(SourceLines(parts), b[1], b[2]), f[1], f[2])
       \/ /\ kind = "gate"
          /\ parts \in GateTokenLists
          /\ \E style \in Styles : input = Render(parts, style)
       \/ /\ kind = "io_wires"
          /\ parts \in IoTokenLists
          /\ \E style \in Styles : input = Render(parts, style)
       \/ /\ kind = "general"
          /\ parts \in GeneralTokenLists
          /\ \E style \in Styles : input = Render(parts, style)
       \/ /\ kind = "io_wires_long"
          /\ usize_bits = 64
          /\ parts \in LongLineCounts \X LongLineWires
          /\ \E n \in LongLineLengths :
                input = [first |-> parts[1], repeated |-> parts[2], times |-> n]

Call(k, r) ==
    /\ pc = "ready"
    /\ kind = k
    /\ result' = r
    /\ pc' = "done"
    /\ UNCHANGED <<kind, input, parts, usize_bits>>

CallParse == Call("circuit", Circuit_parse(input))

CallParseGate == Call("gate", parse_gate(input))

CallParseHeaderIoWires == Call("io_wires", parse_header_io_wires(input))

CallParseHeaderGeneral == Call("general", parse_header_general(input))

CallParseHeaderIoWiresLong ==
    Call("io_wires_long", IoWiresRepeated(input.first, input.repeated, input.times))

Next ==
    \/ CallParse
    \/ CallParseGate
    \/ CallParseHeaderIoWires
    \/ CallParseHeaderGeneral
    \/ CallParseHeaderIoWiresLong

Spec == Init /\ [][Next]_vars

----------------------------------------------------------------------------
(* What a token denotes, stated without the parser's arithmetic.           *)

\* an optional "+" followed by one or more decimal digits
IsNumeral(tok) ==
    LET ds == IF tok # <<>> /\ Head(tok) = "+" THEN Tail(tok) ELSE tok
    IN  ds # <<>> /\ \A k \in 1..Len(ds) : IsDigit(ds[k])

RECURSIVE StripZeros(_)
StripZeros(ds) == IF Len(ds) > 1 /\ Head(ds) = "0" THEN StripZeros(Tail(ds)) ELSE ds

\* the numeral without sign and leading zeros
Canon(tok) == StripZeros(IF Head(tok) = "+" THEN Tail(tok) ELSE tok)

\* a <= b for canonical numerals
NumeralLe(a, b) ==
    \/ Len(a) < Len(b)
    \/ /\ Len(a) = Len(b)
       /\ \/ a = b
          \/ \E k \in 1..Len(a) :
                /\ DigitVal(a[k]) < DigitVal(b[k])
                /\ \A j \in 1..(k - 1) : a[j] = b[j]

\* the token denotes an integer of [0, 2^32 - 1]
DenotesU32(tok) == IsNumeral(tok) /\ NumeralLe(Canon(tok), U32_MAX_TOKEN)

\* limbs (most significant first) divided by 10: quotient limbs and remainder
RECURSIVE DivTen(_, _)
DivTen(be, rem) ==
    IF be = <<>> THEN [q |-> <<>>, rem |-> rem]
    ELSE LET cur == rem * LimbBase + Head(be)
             r == DivTen(Tail(be), cur % 10)
         IN  [q |-> <<cur \div 10>> \o r.q, rem |-> r.rem]

Reverse(s) == [i \in 1..Len(s) |-> s[Len(s) + 1 - i]]

\* the canonical numeral of a value kept as limbs
RECURSIVE NumeralOf(_)
NumeralOf(limbs) ==
    LET d == DivTen(Reverse(limbs), 0)
    IN  IF \A k \in 1..Len(d.q) : d.q[k] = 0 THEN <<DigitChars[d.rem + 1]>>
        ELSE NumeralOf(Reverse(d.q)) \o <<DigitChars[d.rem + 1]>>

\* value is the integer the token denotes
ValueOf(tok, value) == IsNumeral(tok) /\ NumeralOf(value) = Canon(tok)

Done(k) == pc = "done" /\ kind = k

LastToken(toks) == toks[Len(toks)]

BinaryTags == {TAG_XOR, TAG_AND}
UnaryTags == {TAG_INV, TAG_NOT}
UnsupportedTags == {TAG_EQ, TAG_EQW, TAG_MAND}

\* a gate line of exactly the expected shape
ExactShape(toks) ==
    \/ /\ Len(toks) = 6
       /\ LastToken(toks) \in BinaryTags
       /\ toks[1] = Dec(2) /\ toks[2] = Dec(1)
       /\ \A k \in 3..5 : DenotesU32(toks[k])
    \/ /\ Len(toks) = 5
       /\ LastToken(toks) \in UnaryTags
       /\ toks[1] = Dec(1) /\ toks[2] = Dec(1)
       /\ \A k \in 3..4 : DenotesU32(toks[k])

\* a port-list line whose count is its number of remaining tokens
PortListShape(toks) ==
    /\ toks # <<>>
    /\ IsNumeral(toks[1])
    /\ Canon(toks[1]) = Dec(Len(toks) - 1)
    /\ \A k \in 2..Len(toks) : DenotesU32(toks[k])

\* a text every line of which has the shape the format gives it
WellFormed(ls) ==
    /\ Len(ls) >= 3
    /\ Len(ls[1]) = 2 /\ DenotesU32(ls[1][1]) /\ DenotesU32(ls[1][2])
    /\ PortListShape(ls[2])
    /\ PortListShape(ls[3])
    /\ \A i \in 4..Len(ls) : ExactShape(ls[i])

HeaderOf(ls) == parse_header(SourceLines(SubSeq(ls, 1, 3)))

GateOf(toks) == parse_gate(SourceLine(toks))

HasBlankLine(text) == \E i \in 1..Len(lines(text)) : lines(text)[i] = <<>>

----------------------------------------------------------------------------
(* The claims.                                                             *)

\* C1: when Circuit::parse succeeds, the gate sequence has one gate per
\* non-empty line after the first three, and its i-th gate is parse_gate of
\* the (i+3)-th non-empty line: textual order, none dropped or duplicated.
C1_GatesInTextualOrder ==
    (Done("circuit") /\ result.ok) =>
        /\ Len(parts) >= 3
        /\ Len(result.val.gates) = Len(parts) - 3
        /\ \A i \in 1..(Len(parts) - 3) : Ok(result.val.gates[i]) = GateOf(parts[i + 3])

C1_Witness ==
    /\ Done("circuit") /\ result.ok
    /\ Len(result.val.gates) >= 2
    /\ result.val.gates[1] # result.val.gates[2]

\* C2: Circuit::parse is all-or-nothing: with fewer than three non-empty
\* lines, a failing header or a failing gate line at any position, it fails
\* and returns no Circuit, in particular none holding the gates parsed so far.
C2_AllOrNothing ==
    (/\ Done("circuit")
     /\ \/ Len(parts) < 3
        \/ ~HeaderOf(parts).ok
        \/ \E i \in 4..Len(parts) : ~GateOf(parts[i]).ok)
    => (~result.ok /\ DOMAIN result = {"ok", "msg"})

C2_Witness ==
    /\ Done("circuit") /\ ~result.ok
    /\ Len(parts) >= 5
    /\ HeaderOf(parts).ok
    /\ GateOf(parts[4]).ok
    /\ ~GateOf(parts[5]).ok

\* C3: zero-length lines are invisible: the outcome of Circuit::parse on a
\* text is its outcome on the same text without its zero-length lines,
\* wherever they stand and however many they are.
C3_BlankLinesInvisible ==
    Done("circuit") => result = Circuit_parse(Text(SourceLines(parts), <<LF>>, FALSE))

C3_Witness ==
    /\ Done("circuit") /\ result.ok
    /\ Len(result.val.gates) >= 2
    /\ HasBlankLine(input)
    /\ Len(lines(input)) >= Len(parts) + 2

\* C4: on a port-list line whose first token is the port count N,
\* parse_header_io_wires fails when the number of remaining tokens is not N,
\* and a success returns exactly N values, the k-th the (k+1)-th token.
C4_PortCountMatches ==
    Done("io_wires") =>
        /\ (/\ parts # <<>>
            /\ IsNumeral(parts[1])
            /\ Canon(parts[1]) # Dec(Len(parts) - 1)) => ~result.ok
        /\ result.ok =>
            /\ IsNumeral(parts[1])
            /\ Canon(parts[1]) = Dec(Len(result.val))
            /\ Len(result.val) = Len(parts) - 1
            /\ \A k \in 1..Len(result.val) : ValueOf(parts[k + 1], result.val[k])

C4_Witness ==
    /\ Done("io_wires")
    /\ parts = <<Dec(3), Dec(1), Dec(8)>>
    /\ result = Panic(MSG_ASSERT)

\* C5: parse_gate dispatches on the last token by exact match: XOR and AND
\* give their variant with input_a, input_b, output from tokens 2, 3, 4, INV
\* and NOT both give INV with input, output from tokens 2, 3; a line of the
\* expected shape yields its gate and any other tag yields none.
C5_DispatchOnLastToken ==
    Done("gate") =>
        /\ ExactShape(parts) => result.ok
        /\ result.ok =>
            \/ /\ LastToken(parts) = TAG_XOR
               /\ result.val.type = "XOR"
               /\ ValueOf(parts[3], result.val.input_a)
               /\ ValueOf(parts[4], result.val.input_b)
               /\ ValueOf(parts[5], result.val.output)
            \/ /\ LastToken(parts) = TAG_AND
               /\ result.val.type = "AND"
               /\ ValueOf(parts[3], result.val.input_a)
               /\ ValueOf(parts[4], result.val.input_b)
               /\ ValueOf(parts[5], result.val.output)
            \/ /\ LastToken(parts) \in {TAG_INV, TAG_NOT}
               /\ result.val.type = "INV"
               /\ ValueOf(parts[3], result.val.input)
               /\ ValueOf(parts[4], result.val.output)

C5_Witness ==
    /\ Done("gate")
    /\ parts = <<Dec(1), Dec(1), Dec(0), Dec(7), TAG_NOT>>
    /\ result = Ok([type |-> "INV", input |-> <<0, 0>>, output |-> <<7, 0>>])

\* C6: a gate line whose declared counts are not those of its tag fails: XOR
\* and AND need token 0 = "2" and token 1 = "1", INV and NOT need token 0 = "1"
\* and token 1 = "1".
C6_ArityMismatchFails ==
    (/\ Done("gate")
     /\ parts # <<>>
     /\ \/ /\ LastToken(parts) \in BinaryTags
           /\ (parts[1] # Dec(2) \/ Len(parts) < 2 \/ parts[2] # Dec(1))
        \/ /\ LastToken(parts) \in UnaryTags
           /\ (parts[1] # Dec(1) \/ Len(parts) < 2 \/ parts[2] # Dec(1)))
    => ~result.ok

C6_Witness ==
    /\ Done("gate")
    /\ parts = <<Dec(1), Dec(1), Dec(0), Dec(7), Dec(0), TAG_AND>>
    /\ result = Panic(MSG_IN_2_AND)

\* C7: a gate line ending in EQ, EQW or MAND fails as not implemented whatever
\* its other tokens, a line ending in a token outside the seven known tags
\* fails as an unknown gate type, and the two outcomes differ.
C7_UnsupportedAndUnknownTags ==
    (Done("gate") /\ parts # <<>>) =>
        /\ LastToken(parts) \in UnsupportedTags => result = Panic(MSG_UNIMPLEMENTED)
        /\ LastToken(parts) \notin (BinaryTags \cup UnaryTags \cup UnsupportedTags)
              => result = Panic(MSG_UNKNOWN_GATE)
        /\ Panic(MSG_UNIMPLEMENTED) # Panic(MSG_UNKNOWN_GATE)

C7_Witness ==
    /\ Done("gate")
    /\ Len(parts) = 6
    /\ LastToken(parts) = TAG_MAND
    /\ result = Panic(MSG_UNIMPLEMENTED)

\* C8: the declared gate count need not be the actual one: a well-formed text
\* parses, header.num_gates is the number written and the gate sequence has
\* one gate per gate line.
C8_DeclaredGateCountNotChecked ==
    (Done("circuit") /\ WellFormed(parts)) =>
        /\ result.ok
        /\ ValueOf(parts[1][1], result.val.header.num_gates)
        /\ Len(result.val.gates) = Len(parts) - 3

C8_Witness ==
    /\ Done("circuit") /\ WellFormed(parts) /\ result.ok
    /\ NumeralOf(result.val.header.num_gates) = Dec(4)
    /\ Len(result.val.gates) = 2

\* C9 (as claimed): parse_gate yields a gate only for a line of exactly the
\* expected shape, six tokens for XOR and AND, five for INV and NOT; a line
\* with extra tokens between the wire identifiers and the tag yields no gate.
C9_OnlyExactShapeYieldsGate ==
    (Done("gate") /\ result.ok) => ExactShape(parts)

\* C10 (as claimed): every numeric token, the port count included, is
\* accepted only if it denotes an integer of [0, 2^32 - 1], and the parsed
\* value is the integer it denotes; a token that is not a numeral, is negative
\* or denotes 2^32 or more makes the call fail.
C10_NumericTokensAreU32 ==
    /\ (Done("general") /\ result.ok) =>
          /\ Len(parts) >= 2
          /\ \A k \in 1..2 : DenotesU32(parts[k]) /\ ValueOf(parts[k], result.val[k])
    /\ (Done("io_wires") /\ result.ok) =>
          /\ DenotesU32(parts[1])
          /\ \A k \in 2..Len(parts) :
                DenotesU32(parts[k]) /\ ValueOf(parts[k], result.val[k - 1])
    /\ (Done("io_wires_long") /\ result.ok) =>
          /\ DenotesU32(parts[1])
          /\ input.times # ZeroLimbs(4) =>
                DenotesU32(parts[2]) /\ ValueOf(parts[2], result.val.each)
    /\ (Done("gate") /\ result.ok /\ result.val.type \in {"XOR", "AND"}) =>
          /\ \A k \in 3..5 : DenotesU32(parts[k])
          /\ ValueOf(parts[3], result.val.input_a)
          /\ ValueOf(parts[4], result.val.input_b)
          /\ ValueOf(parts[5], result.val.output)
    /\ (Done("gate") /\ result.ok /\ result.val.type = "INV") =>
          /\ \A k \in 3..4 : DenotesU32(parts[k])
          /\ ValueOf(parts[3], result.val.input)
          /\ ValueOf(parts[4], result.val.output)
    /\ (Done("circuit") /\ result.ok) =>
          \A i \in 1..3 : \A k \in 1..Len(parts[i]) :
             (i = 1 => k <= 2) => DenotesU32(parts[i][k])

\* C10 (amended): num_gates, num_wires, the per-port wire counts and the gate
\* wire identifiers are accepted only if they denote an integer of
\* [0, 2^32 - 1], and the parsed value is the integer denoted; the port count
\* is accepted only if it is a numeral denoting the number of remaining tokens
\* of its line, whatever that number is (2^32 or more on a 64-bit target).
C10_NumericTokensInTypeRange ==
    /\ (Done("general") /\ result.ok) =>
          /\ Len(parts) >= 2
          /\ \A k \in 1..2 : DenotesU32(parts[k]) /\ ValueOf(parts[k], result.val[k])
    /\ (Done("io_wires") /\ result.ok) =>
          /\ IsNumeral(parts[1]) /\ Canon(parts[1]) = Dec(Len(parts) - 1)
          /\ \A k \in 2..Len(parts) :
                DenotesU32(parts[k]) /\ ValueOf(parts[k], result.val[k - 1])
    /\ (Done("io_wires_long") /\ result.ok) =>
          /\ ValueOf(parts[1], input.times)
          /\ result.val.len = input.times
          /\ input.times # ZeroLimbs(4) =>
                DenotesU32(parts[2]) /\ ValueOf(parts[2], result.val.each)
    /\ (Done("gate") /\ result.ok /\ result.val.type \in {"XOR", "AND"}) =>
          /\ \A k \in 3..5 : DenotesU32(parts[k])
          /\ ValueOf(parts[3], result.val.input_a)
          /\ ValueOf(parts[4], result.val.input_b)
          /\ ValueOf(parts[5], result.val.output)
    /\ (Done("gate") /\ result.ok /\ result.val.type = "INV") =>
          /\ \A k \in 3..4 : DenotesU32(parts[k])
          /\ ValueOf(parts[3], result.val.input)
          /\ ValueOf(parts[4], result.val.output)
    /\ (Done("circuit") /\ result.ok) =>
          /\ DenotesU32(parts[1][1]) /\ DenotesU32(parts[1][2])
          /\ \A i \in 2..3 :
                /\ IsNumeral(parts[i][1]) /\ Canon(parts[i][1]) = Dec(Len(parts[i]) - 1)
                /\ \A k \in 2..Len(parts[i]) : DenotesU32(parts[i][k])

\* a port count of 2^32 accepted on a 64-bit target, with wire counts of
\* 2^32 - 1, the largest value a u32 token may denote
C10_Witness ==
    /\ Done("io_wires_long")
    /\ usize_bits = 64
    /\ parts = <<U32_OVER_TOKEN, U32_MAX_TOKEN>>
    /\ result = Ok([len |-> <<0, 0, 1, 0>>, each |-> <<65535, 65535>>])

====
